---------------------------- MODULE Spec2Model ----------------------------
(***************************************************************************)
(* A model of the LiveAvatar AI-SDR demo.                                  *)
(*                                                                         *)
(*   Spec         the Session Orchestrator (the LiveAvatarDemo component   *)
(*                in its three variants): form -> generating -> session    *)
(*                -> ended|form, with the two fetches of startSession as   *)
(*                separate steps, so that runs can overlap exactly where   *)
(*                the code lets them.                                      *)
(*   SpecHandler  the /api/generate-context POST handler in its three      *)
(*                variants, against a remote context store shared by the   *)
(*                requests in flight.                                      *)
(*                                                                         *)
(* Strings that the code takes apart (URLs, context names) are sequences   *)
(* of tokens; texts whose only use is their length are lengths.            *)
(***************************************************************************)
EXTENDS Integers, Sequences, FiniteSets, TLC

VARIABLES
    \* ---- configuration, fixed at build time
    variant,            \* which LiveAvatarDemo source: "embed" | "ref" | "plain"
    AUTO_START,         \* process.env.NEXT_PUBLIC_AUTO_START === "true"
    AUTO_WEBSITE_URL,   \* process.env.NEXT_PUBLIC_WEBSITE_URL || ""
    \* ---- React state and refs of LiveAvatarDemo
    sessionToken,
    error,
    setupStep,
    userName,
    businessUrl,
    currentContextId,
    currentBusinessName,
    currentBusinessUrl,
    hasEmbedRef,
    autoStartTriggered,
    avatars,
    selectedAvatar,
    loadingAvatars,
    \* ---- the startSession calls in flight
    runs,
    sessionCtx,         \* the contextId the run that opened the session had obtained
    \* ---- the generate-context endpoint and the remote service behind it
    handler,            \* which POST source: "simple" | "multi" | "reader"
    foreignContexts,    \* contexts of other businesses the remote lists first
    contexts,           \* the contexts of the remote service, in listing order
    req                 \* the requests to POST /api/generate-context

orchVars == <<variant, AUTO_START, AUTO_WEBSITE_URL, sessionToken, error, setupStep,
              userName, businessUrl, currentContextId, currentBusinessName,
              currentBusinessUrl, hasEmbedRef, autoStartTriggered, avatars,
              selectedAvatar, loadingAvatars, runs, sessionCtx>>

handlerVars == <<handler, foreignContexts, contexts, req>>

vars == <<orchVars, handlerVars>>

-----------------------------------------------------------------------------
(* JavaScript values *)

Null == "null"
Undefined == "undefined"

\* A value in a boolean position: null, undefined, "" and false are falsy.
Truthy(v) == v \notin {Null, Undefined, ""}

\* The same for a string held as a token sequence: only "" is falsy.
TruthySeq(s) == s # <<>>

\* JavaScript's a || b
Or(a, b) == IF Truthy(a) THEN a ELSE b

-----------------------------------------------------------------------------
(* Bounds *)

\* startSession calls that can be in flight at once (slots, reused when a run ends)
MaxRuns == 2

Runs == 1..MaxRuns

-----------------------------------------------------------------------------
(* The orchestrator's inputs *)

Variants == {"embed", "ref", "plain"}

AUTO_USER_NAME == "Visitor"

UserNames == {"", AUTO_USER_NAME}

\* What a user can type into the URL field, as token sequences.
UrlInputs == { <<>>,
               <<"acme", ".", "com">>,
               <<" ", "acme", ".", "com", " ">>,
               <<"HTTP://", "acme", ".", "com">> }

AvatarLists == { <<>>, <<"a1", "a2">> }

ContextIds == {"ctx1", "ctx2"}

\* A fetch() seen from its caller: it rejects (net = FALSE), or it resolves to a
\* response with res.ok and a body that res.json() parses (json = TRUE) or not.
Response(net, ok, json, contextId, businessName, token, err) ==
    [net |-> net, ok |-> ok, json |-> json, contextId |-> contextId,
     businessName |-> businessName, session_token |-> token, error |-> err]

Rejected == Response(FALSE, FALSE, FALSE, Undefined, Undefined, Undefined, Undefined)

ErrorResponses ==
    { Response(TRUE, FALSE, j, Undefined, Undefined, Undefined, e) :
        j \in BOOLEAN, e \in {Undefined, "", "Could not access the website"} }

\* /api/generate-context answers 200 with {contextId, businessName}; contextId is
\* dropped by JSON.stringify when the handler computed undefined for it.
ContextResponses ==
    {Rejected} \cup ErrorResponses
    \cup { Response(TRUE, TRUE, TRUE, c, "Acme", Undefined, Undefined) :
             c \in ContextIds \cup {Undefined} }
    \cup { Response(TRUE, TRUE, FALSE, Undefined, Undefined, Undefined, Undefined) }

SessionResponses ==
    {Rejected} \cup ErrorResponses
    \cup { Response(TRUE, TRUE, TRUE, Undefined, Undefined, t, Undefined) :
             t \in {"tok1", Undefined} }
    \cup { Response(TRUE, TRUE, FALSE, Undefined, Undefined, Undefined, Undefined) }

NoResponse == Response(FALSE, FALSE, FALSE, Null, Null, Null, Null)

-----------------------------------------------------------------------------
(* normalizeUrl *)

RECURSIVE TrimStart(_)
TrimStart(s) == IF s # <<>> /\ Head(s) = " " THEN TrimStart(Tail(s)) ELSE s

RECURSIVE TrimEnd(_)
TrimEnd(s) ==
    IF s # <<>> /\ s[Len(s)] = " " THEN TrimEnd(SubSeq(s, 1, Len(s) - 1)) ELSE s

Trim(s) == TrimEnd(TrimStart(s))

\* The tokens /^https?:\/\//i matches
SchemeTokens == {"http://", "https://", "HTTP://", "HTTPS://", "Http://", "Https://"}

HasScheme(s) == s # <<>> /\ Head(s) \in SchemeTokens

\* a normalizeUrl that does not trim
NormalizeUrlNoTrim(url) ==
    IF ~HasScheme(url) THEN <<"https://">> \o url ELSE url

NormalizeUrl(url) ==
    LET normalized == Trim(url)
    IN  IF ~HasScheme(normalized) THEN <<"https://">> \o normalized ELSE normalized

-----------------------------------------------------------------------------
(* The orchestrator *)

NoTracked == [currentContextId |-> Null, currentBusinessName |-> "",
              currentBusinessUrl |-> <<>>, hasEmbedRef |-> FALSE,
              sessionToken |-> ""]

IdleRun == [pc |-> "idle", normalizedUrl |-> <<>>, ctx |-> NoResponse,
            before |-> NoTracked]

\* The tracked context identifiers and the session token
Tracked == [currentContextId |-> currentContextId,
            currentBusinessName |-> currentBusinessName,
            currentBusinessUrl |-> currentBusinessUrl,
            hasEmbedRef |-> hasEmbedRef,
            sessionToken |-> sessionToken]

InitOrch ==
    /\ variant \in Variants
    /\ AUTO_START \in BOOLEAN
    /\ AUTO_WEBSITE_URL \in {<<>>, <<"https://", "acme", ".", "com">>}
    /\ sessionToken = ""
    /\ error = Null
    /\ setupStep = "form"
    /\ userName = AUTO_USER_NAME
    /\ businessUrl = AUTO_WEBSITE_URL
    /\ currentContextId = Null
    /\ currentBusinessName = ""
    /\ currentBusinessUrl = <<>>
    /\ hasEmbedRef = FALSE
    /\ autoStartTriggered = FALSE
    /\ avatars = <<>>
    /\ selectedAvatar = Null
    /\ loadingAvatars = TRUE
    /\ runs = [r \in Runs |-> IdleRun]
    /\ sessionCtx = Null

FreeRuns == {r \in Runs : runs[r].pc = "idle"}

FreeRun == CHOOSE r \in FreeRuns : \A q \in FreeRuns : r <= q

\* startSession up to its first await: the state it sets and the request it sends.
\* The closure reads userName and businessUrl of the render it was created in.
StartSession(r) ==
    /\ error' = Null
    /\ setupStep' = "generating"
    /\ runs' = [runs EXCEPT ![r] = [pc |-> "awaitContext",
                                    normalizedUrl |-> NormalizeUrl(businessUrl),
                                    ctx |-> NoResponse,
                                    before |-> Tracked]]

\* What the catch block of startSession receives as err.message
ThrownMessage(resp, fallback) ==
    IF ~resp.net THEN "Failed to fetch"
    ELSE IF ~resp.json THEN "Unexpected token in JSON"
    ELSE Or(resp.error, fallback)

Throws(resp) == ~resp.net \/ ~resp.ok \/ ~resp.json

\* catch (err) { setError(err.message); setSetupStep("form"); }
Catch(r, message) ==
    /\ error' = message
    /\ setupStep' = "form"
    /\ runs' = [runs EXCEPT ![r] = IdleRun]

\* the auto-start effect, run after a render that changed loadingAvatars or
\* selectedAvatar to the values given
AutoStartFires(loading, selected) ==
    /\ AUTO_START
    /\ TruthySeq(AUTO_WEBSITE_URL)
    /\ ~autoStartTriggered
    /\ ~loading
    /\ Truthy(selected)

AutoStartEffect(loading, selected) ==
    IF AutoStartFires(loading, selected) /\ FreeRuns # {}
    THEN /\ autoStartTriggered' = TRUE
         /\ StartSession(FreeRun)
    ELSE UNCHANGED <<autoStartTriggered, error, setupStep, runs>>

\* fetchAvatars resolving: the avatar list arrives (or not), then the effect runs
FetchAvatars(ok, list) ==
    /\ loadingAvatars
    /\ avatars' = IF ok THEN list ELSE avatars
    /\ selectedAvatar' = IF ok /\ Len(list) > 0 THEN list[1] ELSE selectedAvatar
    /\ loadingAvatars' = FALSE
    /\ AutoStartEffect(FALSE, selectedAvatar')
    /\ UNCHANGED handlerVars
    /\ UNCHANGED <<variant, AUTO_START, AUTO_WEBSITE_URL, sessionToken, userName,
                   businessUrl, currentContextId, currentBusinessName,
                   currentBusinessUrl, hasEmbedRef, sessionCtx>>

\* a click on an avatar of the form's gallery
SelectAvatar(a) ==
    /\ setupStep = "form"
    /\ ~loadingAvatars
    /\ \E i \in 1..Len(avatars) : avatars[i] = a
    /\ selectedAvatar # a
    /\ selectedAvatar' = a
    /\ AutoStartEffect(loadingAvatars, a)
    /\ UNCHANGED handlerVars
    /\ UNCHANGED <<variant, AUTO_START, AUTO_WEBSITE_URL, sessionToken, userName,
                   businessUrl, currentContextId, currentBusinessName,
                   currentBusinessUrl, hasEmbedRef, avatars, loadingAvatars,
                   sessionCtx>>

SetUserName(v) ==
    /\ setupStep = "form"
    /\ userName # v
    /\ userName' = v
    /\ UNCHANGED handlerVars
    /\ UNCHANGED <<variant, AUTO_START, AUTO_WEBSITE_URL, sessionToken, error,
                   setupStep, businessUrl, currentContextId, currentBusinessName,
                   currentBusinessUrl, hasEmbedRef, autoStartTriggered, avatars,
                   selectedAvatar, loadingAvatars, runs, sessionCtx>>

SetBusinessUrl(v) ==
    /\ setupStep = "form"
    /\ businessUrl # v
    /\ businessUrl' = v
    /\ UNCHANGED handlerVars
    /\ UNCHANGED <<variant, AUTO_START, AUTO_WEBSITE_URL, sessionToken, error,
                   setupStep, userName, currentContextId, currentBusinessName,
                   currentBusinessUrl, hasEmbedRef, autoStartTriggered, avatars,
                   selectedAvatar, loadingAvatars, runs, sessionCtx>>

\* the form's submit: both inputs are `required`, so the browser submits only
\* when neither value is empty
HandleSubmit ==
    /\ setupStep = "form"
    /\ userName # ""
    /\ businessUrl # <<>>
    /\ FreeRuns # {}
    /\ StartSession(FreeRun)
    /\ UNCHANGED handlerVars
    /\ UNCHANGED <<variant, AUTO_START, AUTO_WEBSITE_URL, sessionToken, userName,
                   businessUrl, currentContextId, currentBusinessName,
                   currentBusinessUrl, hasEmbedRef, autoStartTriggered, avatars,
                   selectedAvatar, loadingAvatars, sessionCtx>>

\* the end screen's "Chat Again" button
ChatAgain ==
    /\ variant \in {"embed", "ref"}
    /\ setupStep = "ended"
    /\ FreeRuns # {}
    /\ StartSession(FreeRun)
    /\ UNCHANGED handlerVars
    /\ UNCHANGED <<variant, AUTO_START, AUTO_WEBSITE_URL, sessionToken, userName,
                   businessUrl, currentContextId, currentBusinessName,
                   currentBusinessUrl, hasEmbedRef, autoStartTriggered, avatars,
                   selectedAvatar, loadingAvatars, sessionCtx>>

\* startSession resumed with the answer of /api/generate-context
ContextResponse(r, resp) ==
    /\ runs[r].pc = "awaitContext"
    /\ IF Throws(resp)
       THEN /\ Catch(r, ThrownMessage(resp, "Failed to generate context"))
            /\ UNCHANGED <<currentContextId, currentBusinessName,
                           currentBusinessUrl, hasEmbedRef>>
       ELSE /\ IF variant = "plain"
               THEN UNCHANGED <<currentContextId, currentBusinessName,
                                currentBusinessUrl, hasEmbedRef>>
               ELSE /\ currentContextId' = resp.contextId
                    /\ currentBusinessName' = resp.businessName
                    /\ IF variant = "ref"
                       THEN /\ currentBusinessUrl' = runs[r].normalizedUrl
                            /\ hasEmbedRef' = Truthy(resp.contextId)
                       ELSE UNCHANGED <<currentBusinessUrl, hasEmbedRef>>
            /\ runs' = [runs EXCEPT ![r].pc = "awaitSession", ![r].ctx = resp]
            /\ UNCHANGED <<error, setupStep>>
    /\ UNCHANGED handlerVars
    /\ UNCHANGED <<variant, AUTO_START, AUTO_WEBSITE_URL, sessionToken, userName,
                   businessUrl, autoStartTriggered, avatars, selectedAvatar,
                   loadingAvatars, sessionCtx>>

\* startSession resumed with the answer of /api/start-session
SessionResponse(r, resp) ==
    /\ runs[r].pc = "awaitSession"
    /\ IF Throws(resp)
       THEN /\ Catch(r, ThrownMessage(resp, "Failed to start session"))
            /\ UNCHANGED <<sessionToken, sessionCtx>>
       ELSE /\ sessionToken' = resp.session_token
            /\ setupStep' = "session"
            /\ runs' = [runs EXCEPT ![r] = IdleRun]
            /\ sessionCtx' = runs[r].ctx.contextId
            /\ UNCHANGED error
    /\ UNCHANGED handlerVars
    /\ UNCHANGED <<variant, AUTO_START, AUTO_WEBSITE_URL, userName, businessUrl,
                   currentContextId, currentBusinessName, currentBusinessUrl,
                   hasEmbedRef, autoStartTriggered, avatars, selectedAvatar,
                   loadingAvatars>>

\* LiveAvatarSession, mounted while setupStep is "session", reports its end
OnSessionStopped ==
    /\ setupStep = "session"
    /\ sessionToken' = ""
    /\ setupStep' = CASE variant = "embed" ->
                           IF Truthy(currentContextId) THEN "ended" ELSE "form"
                      [] variant = "ref" ->
                           IF hasEmbedRef THEN "ended" ELSE "form"
                      [] OTHER -> "form"
    /\ UNCHANGED handlerVars
    /\ UNCHANGED <<variant, AUTO_START, AUTO_WEBSITE_URL, error, userName,
                   businessUrl, currentContextId, currentBusinessName,
                   currentBusinessUrl, hasEmbedRef, autoStartTriggered, avatars,
                   selectedAvatar, loadingAvatars, runs, sessionCtx>>

\* a start-over that leaves the context identifiers as they are
HandleStartOverKeeping ==
    /\ variant \in {"embed", "ref"}
    /\ setupStep = "ended"
    /\ setupStep' = "form"
    /\ UNCHANGED handlerVars
    /\ UNCHANGED <<variant, AUTO_START, AUTO_WEBSITE_URL, sessionToken, error,
                   userName, businessUrl, currentContextId, currentBusinessName,
                   currentBusinessUrl, hasEmbedRef, autoStartTriggered, avatars,
                   selectedAvatar, loadingAvatars, runs, sessionCtx>>

\* the end screen's "Create Another" button
HandleStartOver ==
    /\ variant \in {"embed", "ref"}
    /\ setupStep = "ended"
    /\ currentContextId' = Null
    /\ currentBusinessName' = ""
    /\ currentBusinessUrl' = IF variant = "ref" THEN <<>> ELSE currentBusinessUrl
    /\ hasEmbedRef' = IF variant = "ref" THEN FALSE ELSE hasEmbedRef
    /\ setupStep' = "form"
    /\ UNCHANGED handlerVars
    /\ UNCHANGED <<variant, AUTO_START, AUTO_WEBSITE_URL, sessionToken, error,
                   userName, businessUrl, autoStartTriggered, avatars,
                   selectedAvatar, loadingAvatars, runs, sessionCtx>>

-----------------------------------------------------------------------------
(* Bounds of the endpoint model *)

\* requests to POST /api/generate-context
MaxReqs == 2

Reqs == 1..MaxReqs

-----------------------------------------------------------------------------
(* Strings of which the code only looks at the length *)

\* a value of type string | null
Str(n) == [null |-> FALSE, len |-> n]

NullStr == [null |-> TRUE, len |-> 0]

\* null and "" are falsy
TruthyStr(s) == ~s.null /\ s.len > 0

Range(s) == {s[i] : i \in DOMAIN s}

RECURSIVE SumSeq(_)
SumSeq(s) == IF s = <<>> THEN 0 ELSE Head(s) + SumSeq(Tail(s))

Min(a, b) == IF a < b THEN a ELSE b

Max(a, b) == IF a > b THEN a ELSE b

\* String.prototype.startsWith on token sequences
StartsWith(s, prefix) ==
    Len(s) >= Len(prefix) /\ SubSeq(s, 1, Len(prefix)) = prefix

-----------------------------------------------------------------------------
(* URLs and extractBusinessName *)

ToLowerCase(w) ==
    CASE w \in {"HTTP://", "Http://"} -> "http://"
      [] w \in {"HTTPS://", "Https://"} -> "https://"
      [] w = "ACME" -> "acme"
      [] w = "Example" -> "example"
      [] w = "Co" -> "co"
      [] OTHER -> w

RECURSIVE UntilSlash(_)
UntilSlash(s) ==
    IF s = <<>> \/ Head(s) = "/" THEN <<>> ELSE <<Head(s)>> \o UntilSlash(Tail(s))

\* new URL(url) throws a TypeError unless url is a scheme followed by a host
ValidUrl(url) ==
    /\ HasScheme(url)
    /\ UntilSlash(Tail(url)) # <<>>
    /\ " " \notin Range(UntilSlash(Tail(url)))

\* new URL(url).hostname
Hostname(url) ==
    LET h == UntilSlash(Tail(url))
    IN  [i \in 1..Len(h) |-> ToLowerCase(h[i])]

TLDs == {"com", "org", "net", "io", "co", "ai", "app"}

\* .replace(/^www\./, "")
StripWww(h) ==
    IF Len(h) >= 2 /\ h[1] = "www" /\ h[2] = "." THEN SubSeq(h, 3, Len(h)) ELSE h

\* a stripping that leaves the top-level domain in place
StripTldNever(h) == h

\* .replace(/\.(com|org|net|io|co|ai|app)$/, "")
StripTld(h) ==
    IF Len(h) >= 2 /\ h[Len(h)] \in TLDs /\ h[Len(h) - 1] = "."
    THEN SubSeq(h, 1, Len(h) - 2)
    ELSE h

\* word.charAt(0).toUpperCase() + word.slice(1)
Capitalize(w) ==
    CASE w = "acme" -> "Acme"
      [] w = "beta" -> "Beta"
      [] w = "corp" -> "Corp"
      [] w = "www" -> "Www"
      [] w = "com" -> "Com"
      [] w = "io" -> "Io"
      [] w = "example" -> "Example"
      [] w = "co" -> "Co"
      [] OTHER -> w

\* .split(/[.-]/).map(capitalize).join(" ")
SplitCapitalizeJoin(h) ==
    [i \in 1..Len(h) |-> IF h[i] \in {".", "-"} THEN " " ELSE Capitalize(h[i])]

\* extractBusinessName(url, content)
ExtractBusinessName(url, content) ==
    IF ValidUrl(url)
    THEN SplitCapitalizeJoin(StripTld(StripWww(Hostname(url))))
    ELSE <<"the company">>

-----------------------------------------------------------------------------
(* The remote context service *)

\* page_size of the list call
PageSize == 100

\* the identifier the remote service gives its n-th context
RemoteId(n) ==
    CASE n = 1 -> "ctx1" [] n = 2 -> "ctx2" [] n = 3 -> "ctx3"
      [] n = 4 -> "ctx4" [] OTHER -> "ctx5"

Timestamps == {"1700000000000"}

\* a naming that puts the user first: `${userName} - ${businessName} Sales Rep (${timestamp})`
ContextNameUserFirst(businessName, user, timestamp) ==
    <<user, " - ">> \o businessName \o <<" Sales Rep", " (", timestamp, ")">>

\* a naming that puts the timestamp first
ContextNameTimestampFirst(businessName, user, timestamp) ==
    <<"(", timestamp, ") ">> \o businessName \o <<" Sales Rep", " - ", user>>

\* `${businessName} Sales Rep - ${userName} (${timestamp})`
ContextName(businessName, user, timestamp) ==
    businessName \o <<" Sales Rep", " - ", user, " (", timestamp, ")">>

\* `${businessName} Sales Rep`
SearchPrefix(businessName) == businessName \o <<" Sales Rep">>

\* what page 1 of GET /v1/contexts shows of the contexts of this model
FirstPage ==
    SubSeq(contexts, 1, Min(Len(contexts), Max(0, PageSize - foreignContexts)))

ListAnswer(net, ok, json, results) ==
    [net |-> net, ok |-> ok, json |-> json, results |-> results]

NoListAnswer == ListAnswer(FALSE, FALSE, FALSE, <<>>)

\* the name of a listed entry that has no name
NoName == <<Undefined>>

\* an entry of another account's making, listed without a name
Nameless == [id |-> "ctx0", name |-> NoName]

ListAnswers ==
    { NoListAnswer,
      ListAnswer(TRUE, FALSE, TRUE, <<>>),
      ListAnswer(TRUE, TRUE, FALSE, <<>>),
      ListAnswer(TRUE, TRUE, TRUE, FirstPage),
      ListAnswer(TRUE, TRUE, TRUE, <<Nameless>> \o FirstPage) }

\* what contexts.find gives when ctx.name.startsWith raises
Raised == "TypeError"

\* a search that returns the last context with the prefix
RECURSIVE FindLast(_, _)
FindLast(results, prefix) ==
    IF results = <<>> THEN Null
    ELSE IF StartsWith(results[Len(results)].name, prefix)
    THEN results[Len(results)].id
    ELSE FindLast(SubSeq(results, 1, Len(results) - 1), prefix)

\* contexts.find((ctx) => ctx.name.startsWith(searchPrefix))?.id || null
RECURSIVE Find(_, _)
Find(results, prefix) ==
    IF results = <<>> THEN Null
    ELSE IF Head(results).name = NoName THEN Raised
    ELSE IF StartsWith(Head(results).name, prefix) THEN Head(results).id
    ELSE Find(Tail(results), prefix)

\* a catch that lets the search's outcome through as it is
OrNullKeeps(found) == found

\* catch (error) { return null }
OrNull(found) == IF found = Raised THEN Null ELSE found

\* findExistingContext, given the answer of its list call
FindExistingContext(businessName, answer) ==
    IF ~answer.net \/ ~answer.ok \/ ~answer.json
    THEN Null
    ELSE OrNull(Find(answer.results, SearchPrefix(businessName)))

CreateAnswer(net, ok, status, json, context_id, id, message) ==
    [net |-> net, ok |-> ok, status |-> status, json |-> json,
     context_id |-> context_id, id |-> id, message |-> message]

NoCreateAnswer == CreateAnswer(FALSE, FALSE, 0, FALSE, Undefined, Undefined, <<>>)

\* the answers POST /v1/contexts can give when the context it makes gets id c
CreateAnswers(c) ==
    { NoCreateAnswer,
      CreateAnswer(TRUE, TRUE, 200, FALSE, Undefined, Undefined, <<>>),
      CreateAnswer(TRUE, TRUE, 200, TRUE, c, Undefined, <<>>),
      CreateAnswer(TRUE, TRUE, 200, TRUE, Undefined, c, <<>>),
      CreateAnswer(TRUE, TRUE, 200, TRUE, Undefined, Undefined, <<>>),
      CreateAnswer(TRUE, FALSE, 422, FALSE, Undefined, Undefined, <<>>),
      CreateAnswer(TRUE, FALSE, 422, TRUE, Undefined, Undefined, <<>>),
      CreateAnswer(TRUE, FALSE, 422, TRUE, Undefined, Undefined, <<"Quota exceeded">>) }

-----------------------------------------------------------------------------
(* Web sites and the page fetchers *)

\* what a server answers to a page request: no 2xx answer at all (ok = FALSE),
\* or a body of `body` characters of which extractTextFromHtml keeps `text`
Reply(ok, body, text) == [ok |-> ok, body |-> body, text |-> text]

Failed == Reply(FALSE, 0, 0)

additionalPathsMulti ==
    <<"/about", "/about-us", "/products", "/services", "/features", "/pricing",
      "/solutions">>

additionalPathsReader == <<"/iphone", "/products", "/about", "/features">>

Paths == Range(additionalPathsMulti) \cup Range(additionalPathsReader)

PathLen(p) ==
    CASE p = "/about" -> 6 [] p = "/iphone" -> 7 [] p = "/pricing" -> 8
      [] p = "/solutions" -> 10 [] OTHER -> 9

NoPages == [p \in Paths |-> Failed]

SomePages ==
    [p \in Paths |->
        CASE p = "/about" -> Reply(TRUE, 150, 150)
          [] p = "/about-us" -> Reply(TRUE, 300, 80)
          [] p = "/products" -> Reply(TRUE, 900, 600)
          [] OTHER -> Failed]

\* a site: what the reader service and the site itself answer for the homepage,
\* and what is answered for the secondary pages
Sites ==
    [reader : {Failed, Reply(TRUE, 150, 150), Reply(TRUE, 600, 600)},
     direct : {Failed, Reply(TRUE, 0, 0), Reply(TRUE, 50, 0), Reply(TRUE, 800, 600)},
     pages  : {NoPages, SomePages}]

\* fetch(url) rejects for a url it cannot parse
DirectReply(url, reply) == IF ValidUrl(url) THEN reply ELSE Failed

\* fetchPage: the body of a 2xx answer, else null
FetchPage(reply) == IF reply.ok THEN Str(reply.body) ELSE NullStr

\* fetchWithJina: the body of a 2xx answer of the reader, else null
FetchWithJina(reply) == IF reply.ok THEN Str(reply.body) ELSE NullStr

\* fetchPageDirect: the extracted text of a 2xx answer, else null
FetchPageDirect(reply) == IF reply.ok THEN Str(reply.text) ELSE NullStr

Fetch(via, path, result) == [via |-> via, path |-> path, result |-> result]

\* what the crawl of a request leaves: whether it threw, whether the handler
\* takes it as "could not fetch", the content (its length and the pages in it)
\* and the fetches made, in order
CrawlResult(threw, failed, len, parts, fetches) ==
    [threw |-> threw, failed |-> failed, len |-> len, parts |-> parts,
     fetches |-> fetches]

NoCrawl == CrawlResult(FALSE, FALSE, 0, <<>>, <<>>)

\* slice(0, 3) of the multi-page crawler
MaxAdditionalPages == 3

\* a secondary page of the multi-page crawler counts above this length
MinPageChars == 100

\* the reader's homepage is taken from this length on
MinReaderChars == 200

\* a secondary page of the reader-based crawler counts above this length
MinSecondaryChars == 500

\* the single-fetch handler: one fetch of businessUrl, inside its own try
FetchSimple(url, site) ==
    LET reply == DirectReply(url, site.direct)
    IN  CrawlResult(FALSE, ~reply.ok, IF reply.ok THEN reply.text ELSE 0,
                    IF reply.ok THEN <<"/">> ELSE <<>>,
                    <<Fetch("direct", "/", FetchPage(reply))>>)

\* fetchWebsiteContent of the multi-page handler
FetchWebsiteContentMulti(baseUrl, site) ==
    IF ~ValidUrl(baseUrl)
    THEN CrawlResult(TRUE, FALSE, 0, <<>>, <<>>)
    ELSE
    LET homepageHtml == FetchPage(site.direct)
        home == Fetch("direct", "/", homepageHtml)
        paths == SubSeq(additionalPathsMulti, 1, MaxAdditionalPages)
        html(p) == FetchPage(site.pages[p])
        Accepted(p) == TruthyStr(html(p)) /\ site.pages[p].text > MinPageChars
        accepted == SelectSeq(paths, Accepted)
        lens == [k \in 1..Len(accepted) |->
                    (PathLen(accepted[k]) - 1) + 7 + site.pages[accepted[k]].text + 2]
    IN  IF ~TruthyStr(homepageHtml)
        THEN CrawlResult(FALSE, TRUE, 0, <<>>, <<home>>)
        ELSE CrawlResult(FALSE, FALSE, 10 + site.direct.text + 2 + SumSeq(lens),
                         <<"/">> \o accepted,
                         <<home>> \o [k \in 1..Len(paths) |->
                                         Fetch("direct", paths[k], html(paths[k]))])

\* the index of the first candidate the reader-based loop accepts, 0 if none
RECURSIVE FirstAccepted(_, _, _)
FirstAccepted(paths, pages, k) ==
    IF k > Len(paths) THEN 0
    ELSE IF /\ TruthyStr(FetchWithJina(pages[paths[k]]))
            /\ FetchWithJina(pages[paths[k]]).len > MinSecondaryChars
         THEN k
         ELSE FirstAccepted(paths, pages, k + 1)

\* fetchWebsiteContent of the reader-based handler
FetchWebsiteContentReader(baseUrl, site) ==
    LET jina == FetchWithJina(site.reader)
        fallback == ~TruthyStr(jina) \/ jina.len < MinReaderChars
        direct == FetchPageDirect(DirectReply(baseUrl, site.direct))
        mainContent == IF fallback THEN direct ELSE jina
        home == <<Fetch("reader", "/", jina)>>
                \o (IF fallback THEN <<Fetch("direct", "/", direct)>> ELSE <<>>)
        paths == additionalPathsReader
        n == FirstAccepted(paths, site.pages, 1)
        tried == IF n = 0 THEN Len(paths) ELSE n
        more == [k \in 1..tried |->
                    Fetch("reader", paths[k], FetchWithJina(site.pages[paths[k]]))]
    IN  IF ~TruthyStr(mainContent)
        THEN CrawlResult(FALSE, TRUE, 0, <<>>, home)
        ELSE IF ~ValidUrl(baseUrl)
        THEN CrawlResult(TRUE, FALSE, 0, <<>>, home)
        ELSE IF n = 0
        THEN CrawlResult(FALSE, FALSE, mainContent.len, <<"/">>, home \o more)
        ELSE CrawlResult(FALSE, FALSE,
                         mainContent.len + 6 + PathLen(paths[n]) + 10
                             + site.pages[paths[n]].body,
                         <<"/", paths[n]>>, home \o more)

-----------------------------------------------------------------------------
(* The crawlers step by step: each call of a page fetcher on its own *)

\* a call of fetchPage, fetchWithJina or fetchPageDirect: where it stands
\* ("waiting" for the response, "reading" the body, "returned", "threw"),
\* whether its abort timer is still set, how it ended and what it returned
Call(fetcher, path) ==
    [fetcher |-> fetcher, path |-> path, st |-> "waiting", armed |-> TRUE,
     cause |-> "none", reply |-> Failed, result |-> NullStr]

Causes == {"network", "abort", "status", "bodyError", "body"}

\* a fetcher whose catch lets a rejected fetch through
EscapesNetwork(cause) == cause = "network"

\* try { ... } catch { return null }: nothing the body raises leaves the fetcher
Escapes(cause) == FALSE

\* if (res.ok) { return await res.text() } return null
ReturnsBody(cause) == cause = "body"

\* what the call returns when it ends by cause with the body of reply read
FetcherResult(fetcher, cause, reply) ==
    IF ~ReturnsBody(cause) THEN NullStr
    ELSE IF fetcher = "fetchPageDirect" THEN Str(reply.text)
    ELSE Str(reply.body)

\* the call ended: by return, or by an exception that left it
Ended(call, cause, reply) ==
    [call EXCEPT !.st = IF Escapes(cause) THEN "threw" ELSE "returned",
                 !.armed = FALSE,
                 !.cause = cause,
                 !.reply = reply,
                 !.result = FetcherResult(call.fetcher, cause, reply)]

\* the bodies a 2xx answer can have, by fetcher and page
Replies(fetcher, path) ==
    CASE fetcher = "fetchPage" /\ path = "/" ->
            {Reply(TRUE, 0, 0), Reply(TRUE, 300, 200)}
      [] fetcher = "fetchPage" ->
            {Reply(TRUE, 300, MinPageChars), Reply(TRUE, 300, MinPageChars + 1)}
      [] fetcher = "fetchWithJina" /\ path = "/" ->
            {Reply(TRUE, MinReaderChars - 1, MinReaderChars - 1),
             Reply(TRUE, MinReaderChars, MinReaderChars)}
      [] fetcher = "fetchWithJina" ->
            {Reply(TRUE, MinSecondaryChars, MinSecondaryChars),
             Reply(TRUE, MinSecondaryChars + 1, MinSecondaryChars + 1)}
      [] OTHER ->
            {Reply(TRUE, 50, 0), Reply(TRUE, 800, 600)}

\* a crawl under way: where fetchWebsiteContent stands, the calls it made in
\* the order it made them, the calls that ended in the order they ended, the
\* homepage content and the pages of the content it builds
NoSteps ==
    [pc |-> "idle", url |-> <<>>, calls |-> <<>>, ended |-> <<>>,
     main |-> NullStr, parts |-> <<>>]

Part(path, len) == [path |-> path, len |-> len]

\* a crawler that goes on whatever the homepage fetch returned
HomepageOkAlways(content) == TRUE

\* if (!homepageHtml) return ... / if (!mainContent) return ...
HomepageOk(content) == TruthyStr(content)

\* a fallback on a missing answer only
InsufficientWhenNull(content) == ~TruthyStr(content)

\* if (!mainContent || mainContent.length < 200)
Insufficient(content) == ~TruthyStr(content) \/ content.len < MinReaderChars

\* a merge in the order the fetches ended
MergeAsEnded(listed, ended) == ended

\* Promise.all keeps the order of pagePromises
MergeOrder(listed, ended) == listed

\* a loop without the break
BreaksNever(accepted) == FALSE

\* if (...) { mainContent += ...; break }
Breaks(accepted) == accepted

\* the multi-page crawler resumed when one of its calls has ended
ResumeMulti(c) ==
    IF c.pc = "home"
    THEN IF ~HomepageOk(c.calls[1].result)
         THEN [c EXCEPT !.pc = "failed"]
         ELSE [c EXCEPT !.pc = "pages",
                        !.main = c.calls[1].result,
                        !.parts = <<Part("/", c.calls[1].reply.text)>>,
                        !.calls = @ \o [k \in 1..MaxAdditionalPages |->
                                          Call("fetchPage", additionalPathsMulti[k])]]
    ELSE IF \E k \in DOMAIN c.calls : c.calls[k].st # "returned"
    THEN c
    ELSE LET Accepted(k) == /\ TruthyStr(c.calls[k].result)
                            /\ c.calls[k].reply.text > MinPageChars
             order == MergeOrder([k \in 1..MaxAdditionalPages |-> k + 1],
                                 Tail(c.ended))
             kept == SelectSeq(order, Accepted)
         IN  [c EXCEPT !.pc = "done",
                       !.parts = @ \o [n \in 1..Len(kept) |->
                                          Part(c.calls[kept[n]].path,
                                               c.calls[kept[n]].reply.text)]]

\* the reader-based crawler past the homepage: new URL(baseUrl), then the loop
Secondary(c) ==
    IF ~ValidUrl(c.url)
    THEN [c EXCEPT !.pc = "threw"]
    ELSE [c EXCEPT !.pc = "pages",
                   !.parts = <<Part("/", c.main.len)>>,
                   !.calls = Append(@, Call("fetchWithJina", additionalPathsReader[1]))]

\* the reader-based crawler resumed when the call it awaits has ended
ResumeReader(c) ==
    LET last == c.calls[Len(c.calls)].result
    IN  IF c.pc = "home"
        THEN IF Insufficient(last)
             THEN [c EXCEPT !.pc = "fallback",
                            !.calls = Append(@, Call("fetchPageDirect", "/"))]
             ELSE Secondary([c EXCEPT !.main = last])
        ELSE IF c.pc = "fallback"
        THEN IF ~HomepageOk(last)
             THEN [c EXCEPT !.pc = "failed"]
             ELSE Secondary([c EXCEPT !.main = last])
        ELSE LET n == Cardinality({k \in DOMAIN c.calls : c.calls[k].path # "/"})
                 accepted == TruthyStr(last) /\ last.len > MinSecondaryChars
                 with == IF accepted
                         THEN [c EXCEPT !.parts = Append(@, Part(additionalPathsReader[n],
                                                                 last.len))]
                         ELSE c
             IN  IF Breaks(accepted) \/ n = Len(additionalPathsReader)
                 THEN [with EXCEPT !.pc = "done"]
                 ELSE [with EXCEPT !.calls =
                          Append(@, Call("fetchWithJina", additionalPathsReader[n + 1]))]

\* fetchWebsiteContent resumed after call k ended as given
Resume(h, c, k, call) ==
    LET d == [c EXCEPT !.calls[k] = call, !.ended = Append(@, k)]
    IN  IF call.st = "threw" THEN [d EXCEPT !.pc = "threw"]
        ELSE IF h = "multi" THEN ResumeMulti(d)
        ELSE ResumeReader(d)

-----------------------------------------------------------------------------
(* POST /api/generate-context *)

HandlerVariants == {"simple", "multi", "reader"}

\* every variant looking for an existing context
ReuseEnabledAll(h) == TRUE

\* the variants that look for an existing context before they create one
ReuseEnabled(h) == h \in {"simple", "multi"}

\* a request body: unparsable, or an object whose userName and businessUrl
\* are there or not
Body(parsed, user, hasUrl, url) ==
    [parsed |-> parsed, userName |-> user, hasUrl |-> hasUrl, businessUrl |-> url]

NoBody == Body(FALSE, Undefined, FALSE, <<>>)

BusinessUrls ==
    { <<>>,
      <<"https://", "acme", ".", "com">>,
      <<"https://", "www", ".", "acme", ".", "io">>,
      <<"acme", ".", "com">> }

Bodies ==
    {NoBody}
    \cup { Body(TRUE, u, TRUE, url) : u \in {Undefined, "", "Ann"}, url \in BusinessUrls }
    \cup { Body(TRUE, u, FALSE, <<>>) : u \in {Undefined, "Ann"} }

\* new Response(JSON.stringify({...}), {status}); JSON.stringify drops the keys
\* whose value is undefined; an absent businessName or error is <<>>
JsonResponse(status, contextId, businessName, reused, err) ==
    [status |-> status, contextId |-> contextId, businessName |-> businessName,
     reused |-> reused, error |-> err]

NoResponseYet == JsonResponse(0, Undefined, <<>>, FALSE, <<>>)

MissingMessage == <<"Missing userName or businessUrl">>

CouldNotAccessMessage(url) ==
    <<"Could not access the website \"">> \o url
    \o <<"\". Please double-check the URL and make sure the website is accessible.">>

\* the outer catch: status 500 with the message of what was thrown
Caught(message) == JsonResponse(500, Undefined, <<>>, FALSE, message)

\* what a request's lookup saw: a page of contexts, or no usable answer
Listed(answer) ==
    IF answer.net /\ answer.ok /\ answer.json
    THEN [page |-> TRUE, results |-> answer.results]
    ELSE [page |-> FALSE, results |-> <<>>]

\* a slice that keeps the whole text
SliceWhole(content, start, end) == [from |-> 0, to |-> content]

\* String.prototype.slice(start, end) on a text of content characters: the
\* characters kept, as offsets into the text
Slice(content, start, end) ==
    [from |-> Min(start, content), to |-> Max(Min(start, content), Min(end, content))]

\* the number of content characters a variant's generateSalesPrompt embeds
PromptCeiling(h) ==
    CASE h = "simple" -> 2000
      [] h = "multi" -> 6000
      [] OTHER -> 10000

\* generateSalesPrompt: whom the prompt speaks for, whose assistant it is, the
\* instructions its text carries and the content it embeds
GenerateSalesPrompt(h, user, businessName, websiteContent) ==
    [salesRepFor |-> businessName,
     assistantOf |-> user,
     onlyProvidedContent |-> h \in {"multi", "reader"},
     connectToHuman |-> TRUE,
     briefForVoice |-> TRUE,
     truncatedContent |-> Slice(websiteContent, 0, PromptCeiling(h))]

NoPrompt ==
    [salesRepFor |-> <<>>, assistantOf |-> "", onlyProvidedContent |-> FALSE,
     connectToHuman |-> FALSE, briefForVoice |-> FALSE,
     truncatedContent |-> [from |-> 0, to |-> 0]]

IdleReq ==
    [pc |-> "idle", body |-> NoBody, crawl |-> NoCrawl, businessName |-> <<>>,
     existing |-> Null, prompt |-> FALSE, systemPrompt |-> NoPrompt, calls |-> <<>>,
     steps |-> NoSteps,
     lookup |-> Listed(NoListAnswer),
     created |-> NoCreateAnswer, made |-> Null, resp |-> NoResponseYet,
     after |-> {}]

\* what the remote service can hold before the first request: nothing, or one
\* context of an earlier user
InitialContexts ==
    { <<>> }
    \cup { <<[id |-> RemoteId(1), name |-> ContextName(b, "Zoe", "1600000000000")]>> :
             b \in {<<"Acme">>, <<"Beta">>} }

InitHandler ==
    /\ handler \in HandlerVariants
    /\ \/ foreignContexts = 0 /\ contexts \in InitialContexts
       \/ foreignContexts = PageSize /\ contexts = <<>>
    /\ req = [i \in Reqs |-> IdleReq]

\* a check of userName alone: if (!userName)
MalformedUserOnly(body) == ~Truthy(body.userName)

\* if (!userName || !businessUrl)
Malformed(body) ==
    ~Truthy(body.userName) \/ ~body.hasUrl \/ ~TruthySeq(body.businessUrl)

\* requests are numbered in the order they arrive
NextReq(i) == req[i].pc = "idle" /\ \A j \in Reqs : j < i => req[j].pc # "idle"

\* the handler up to its first await: request.json() and the check of the fields
Receive(i, body) ==
    /\ NextReq(i)
    /\ req' = [req EXCEPT ![i] =
                 [@ EXCEPT !.body = body,
                           !.after = {j \in Reqs : req[j].pc = "done"},
                           !.pc = IF body.parsed /\ ~Malformed(body)
                                  THEN "crawl" ELSE "done",
                           !.resp = IF ~body.parsed
                                    THEN Caught(<<"Unexpected token in JSON">>)
                                    ELSE IF Malformed(body)
                                    THEN JsonResponse(400, Undefined, <<>>, FALSE,
                                                      MissingMessage)
                                    ELSE NoResponseYet]]
    /\ UNCHANGED <<handler, foreignContexts, contexts>>
    /\ UNCHANGED orchVars

Crawled(h, url, site) ==
    CASE h = "simple" -> FetchSimple(url, site)
      [] h = "multi" -> FetchWebsiteContentMulti(url, site)
      [] OTHER -> FetchWebsiteContentReader(url, site)

\* the handler from its first fetch to the answer of the last one of the crawl
Crawl(i, site) ==
    /\ req[i].pc = "crawl"
    /\ LET url == req[i].body.businessUrl
           c == Crawled(handler, url, site)
       IN  req' = [req EXCEPT ![i] =
             IF c.threw
             THEN [@ EXCEPT !.crawl = c, !.pc = "done",
                            !.resp = Caught(<<"Invalid URL">>)]
             ELSE IF c.failed
             THEN [@ EXCEPT !.crawl = c, !.pc = "done",
                            !.resp = JsonResponse(400, Undefined, <<>>, FALSE,
                                                  CouldNotAccessMessage(url))]
             ELSE [@ EXCEPT !.crawl = c,
                            !.businessName = ExtractBusinessName(url, c.len),
                            !.prompt = ~ReuseEnabled(handler),
                            !.systemPrompt =
                                IF ReuseEnabled(handler) THEN @
                                ELSE GenerateSalesPrompt(
                                         handler, req[i].body.userName,
                                         ExtractBusinessName(url, c.len), c.len),
                            !.pc = IF ReuseEnabled(handler) THEN "lookup"
                                   ELSE "create"]]
    /\ UNCHANGED <<handler, foreignContexts, contexts>>
    /\ UNCHANGED orchVars

\* a handler that creates whatever the lookup returned
ReusesNever(existingContextId) == FALSE

\* if (existingContextId)
Reuses(existingContextId) == Truthy(existingContextId)

\* the handler resumed with the answer of the list call of findExistingContext
Lookup(i, answer) ==
    /\ req[i].pc = "lookup"
    /\ LET existingContextId == FindExistingContext(req[i].businessName, answer)
       IN  req' = [req EXCEPT ![i] =
             IF Reuses(existingContextId)
             THEN [@ EXCEPT !.lookup = Listed(answer), !.calls = Append(@, "list"),
                            !.existing = existingContextId,
                            !.pc = "done",
                            !.resp = JsonResponse(200, existingContextId,
                                                  req[i].businessName, TRUE, <<>>)]
             ELSE [@ EXCEPT !.lookup = Listed(answer), !.calls = Append(@, "list"),
                            !.existing = existingContextId,
                            !.prompt = TRUE,
                            !.systemPrompt =
                                GenerateSalesPrompt(
                                    handler, req[i].body.userName,
                                    req[i].businessName, req[i].crawl.len),
                            !.pc = "create"]]
    /\ UNCHANGED <<handler, foreignContexts, contexts>>
    /\ UNCHANGED orchVars

\* the handler's response to the answer of POST /v1/contexts
CreateResponse(answer, businessName) ==
    IF ~answer.net THEN Caught(<<"fetch failed">>)
    ELSE IF ~answer.json THEN Caught(<<"Unexpected token in JSON">>)
    ELSE IF ~answer.ok
    THEN JsonResponse(answer.status, Undefined, <<>>, FALSE,
                      IF TruthySeq(answer.message) THEN answer.message
                      ELSE <<"Failed to create context">>)
    ELSE JsonResponse(200, Or(answer.context_id, answer.id), businessName,
                      FALSE, <<>>)

\* the remote service takes the create call and the handler resumes with its answer
Create(i, timestamp, answer) ==
    /\ req[i].pc = "create"
    /\ contexts' =
         IF answer.net /\ answer.ok
         THEN Append(contexts,
                     [id |-> RemoteId(Len(contexts) + 1),
                      name |-> ContextName(req[i].businessName,
                                           req[i].body.userName, timestamp)])
         ELSE contexts
    /\ req' = [req EXCEPT ![i] =
                 [@ EXCEPT !.created = answer, !.calls = Append(@, "create"),
                           !.made = IF answer.net /\ answer.ok
                                    THEN RemoteId(Len(contexts) + 1) ELSE Null,
                           !.pc = "done",
                           !.resp = CreateResponse(answer, req[i].businessName)]]
    /\ UNCHANGED <<handler, foreignContexts>>
    /\ UNCHANGED orchVars

\* the endpoint with nothing in it, as the orchestrator's specification has it
HandlerAtRest ==
    /\ handler = "multi"
    /\ foreignContexts = 0
    /\ contexts = <<>>
    /\ req = [i \in Reqs |-> IdleReq]

\* the orchestrator untouched, as the endpoint's specification has it
OrchAtRest == InitOrch /\ variant = "embed" /\ ~AUTO_START /\ AUTO_WEBSITE_URL = <<>>

InitEndpoint == OrchAtRest /\ InitHandler

NextHandler ==
    \/ \E i \in Reqs, body \in Bodies : Receive(i, body)
    \/ \E i \in Reqs, site \in Sites : Crawl(i, site)
    \/ \E i \in Reqs, answer \in ListAnswers : Lookup(i, answer)
    \/ \E i \in Reqs, timestamp \in Timestamps,
          answer \in CreateAnswers(RemoteId(Len(contexts) + 1)) :
             Create(i, timestamp, answer)

SpecHandler == InitEndpoint /\ [][NextHandler]_vars

-----------------------------------------------------------------------------
(* extractBusinessName on its own *)

NameUrls ==
    { <<"https://", "www", ".", "Example", "-", "Co", ".", "com">>,
      <<"https://", "acme", ".", "com">>,
      <<"https://", "www", ".", "acme", ".", "io">>,
      <<"http://", "acme", "-", "corp", ".", "app", "/", "pricing">>,
      <<"https://", "www", ".", "com">>,
      <<"acme", ".", "com">>,
      <<>> }

ContentLengths == {0, 600}

\* extractBusinessName called with a URL and a content, the result kept in req[i]
ApplyExtractBusinessName(i, url, content) ==
    /\ req[i].pc = "idle"
    /\ req' = [req EXCEPT ![i] =
                 [@ EXCEPT !.pc = "named",
                           !.body = Body(TRUE, "Ann", TRUE, url),
                           !.crawl = CrawlResult(FALSE, FALSE, content, <<>>, <<>>),
                           !.businessName = ExtractBusinessName(url, content)]]
    /\ UNCHANGED <<handler, foreignContexts, contexts>>
    /\ UNCHANGED orchVars

InitNames == OrchAtRest /\ HandlerAtRest

NextNames ==
    \E i \in Reqs, url \in NameUrls, content \in ContentLengths :
        ApplyExtractBusinessName(i, url, content)

SpecNames == InitNames /\ [][NextNames]_vars

-----------------------------------------------------------------------------
(* generateSalesPrompt on its own *)

PromptContents == {0, 1999, 2000, 2001, 6000, 6001, 10000, 10001}

\* generateSalesPrompt called with a crawled content, the prompt kept in req[i]
ApplyGenerateSalesPrompt(i, websiteContent) ==
    /\ req[i].pc = "idle"
    /\ req' = [req EXCEPT ![i] =
                 [@ EXCEPT !.pc = "prompted",
                           !.body = Body(TRUE, "Ann", TRUE,
                                         <<"https://", "acme", ".", "com">>),
                           !.crawl = CrawlResult(FALSE, FALSE, websiteContent,
                                                 <<>>, <<>>),
                           !.businessName = <<"Acme">>,
                           !.prompt = TRUE,
                           !.systemPrompt =
                               GenerateSalesPrompt(handler, "Ann", <<"Acme">>,
                                                   websiteContent)]]
    /\ UNCHANGED <<handler, foreignContexts, contexts>>
    /\ UNCHANGED orchVars

InitPrompts ==
    /\ OrchAtRest
    /\ handler \in HandlerVariants
    /\ foreignContexts = 0
    /\ contexts = <<>>
    /\ req = [i \in Reqs |-> IdleReq]

NextPrompts ==
    \E i \in Reqs, websiteContent \in PromptContents :
        ApplyGenerateSalesPrompt(i, websiteContent)

SpecPrompts == InitPrompts /\ [][NextPrompts]_vars

-----------------------------------------------------------------------------
(* fetchWebsiteContent step by step *)

\* the request whose crawl is followed call by call
CrawlSlot == 1

Steps == req[CrawlSlot].steps

CrawlUrls == { <<"https://", "acme", ".", "com">>, <<"acme", ".", "com">> }

\* the calls a crawl can make: the homepage, its fallback, four candidates
CallIds == 1..(2 + Len(additionalPathsReader))

Crawling == Steps.pc \in {"home", "fallback", "pages"}

Pending(k, st) == Crawling /\ k \in DOMAIN Steps.calls /\ Steps.calls[k].st = st

SetSteps(c) ==
    /\ req' = [req EXCEPT ![CrawlSlot].steps = c]
    /\ UNCHANGED <<handler, foreignContexts, contexts>>
    /\ UNCHANGED orchVars

\* fetchWebsiteContent(baseUrl) up to its first await
StartCrawl(baseUrl) ==
    /\ Steps.pc = "idle"
    /\ SetSteps(IF handler = "multi" /\ ~ValidUrl(baseUrl)
                THEN [Steps EXCEPT !.pc = "threw", !.url = baseUrl]
                ELSE [Steps EXCEPT
                        !.pc = "home", !.url = baseUrl,
                        !.calls = <<Call(IF handler = "multi" THEN "fetchPage"
                                         ELSE "fetchWithJina", "/")>>])

\* the request of call k goes to a server: always for the reader service, and
\* for the site itself when its URL parses
Reaches(k) == Steps.calls[k].fetcher = "fetchWithJina" \/ ValidUrl(Steps.url)

\* fetch() rejects: the URL does not parse, or the network fails. The timer
\* stays set: clearTimeout is not reached.
Rejects(k) ==
    /\ Pending(k, "waiting")
    /\ SetSteps(Resume(handler, Steps, k,
                        [Ended(Steps.calls[k], "network", Failed)
                            EXCEPT !.armed = Steps.calls[k].armed]))

\* the response's status and headers arrive: clearTimeout, then res.ok
Headers(k, ok) ==
    /\ Pending(k, "waiting")
    /\ Reaches(k)
    /\ SetSteps(IF ok
                THEN [Steps EXCEPT !.calls[k].st = "reading",
                                   !.calls[k].armed = FALSE]
                ELSE Resume(handler, Steps, k,
                            Ended(Steps.calls[k], "status", Failed)))

\* res.text() resolves with the body
BodyRead(k, reply) ==
    /\ Pending(k, "reading")
    /\ SetSteps(Resume(handler, Steps, k, Ended(Steps.calls[k], "body", reply)))

\* res.text() rejects: the connection breaks while the body is read
BodyFails(k) ==
    /\ Pending(k, "reading")
    /\ SetSteps(Resume(handler, Steps, k,
                        Ended(Steps.calls[k], "bodyError", Failed)))

\* the timer of call k fires: controller.abort(). A fetch that is waiting
\* rejects; for a call that ended already nothing happens.
TimerFires(k) ==
    /\ k \in DOMAIN Steps.calls
    /\ Steps.calls[k].armed
    /\ SetSteps(IF Crawling /\ Steps.calls[k].st = "waiting"
                THEN Resume(handler, Steps, k,
                            Ended(Steps.calls[k], "abort", Failed))
                ELSE [Steps EXCEPT !.calls[k].armed = FALSE])

InitCrawl ==
    /\ OrchAtRest
    /\ handler \in {"multi", "reader"}
    /\ foreignContexts = 0
    /\ contexts = <<>>
    /\ req = [i \in Reqs |-> IdleReq]

NextCrawl ==
    \/ \E baseUrl \in CrawlUrls : StartCrawl(baseUrl)
    \/ \E k \in CallIds : Rejects(k)
    \/ \E k \in CallIds, ok \in BOOLEAN : Headers(k, ok)
    \/ \E k \in DOMAIN Steps.calls :
          \E reply \in Replies(Steps.calls[k].fetcher, Steps.calls[k].path) :
              BodyRead(k, reply)
    \/ \E k \in CallIds : BodyFails(k)
    \/ \E k \in CallIds : TimerFires(k)

SpecCrawl == InitCrawl /\ [][NextCrawl]_vars

\* the timers are the runtime's: a timer that is set fires
SpecCrawlFair == SpecCrawl /\ \A k \in CallIds : WF_vars(TimerFires(k))

-----------------------------------------------------------------------------
(* The orchestrator's specification *)

Init == InitOrch /\ HandlerAtRest

Next ==
    \/ \E ok \in BOOLEAN, list \in AvatarLists : FetchAvatars(ok, list)
    \/ \E a \in {"a1", "a2"} : SelectAvatar(a)
    \/ \E v \in UserNames : SetUserName(v)
    \/ \E v \in UrlInputs : SetBusinessUrl(v)
    \/ HandleSubmit
    \/ ChatAgain
    \/ \E r \in Runs, resp \in ContextResponses : ContextResponse(r, resp)
    \/ \E r \in Runs, resp \in SessionResponses : SessionResponse(r, resp)
    \/ OnSessionStopped
    \/ HandleStartOver

Spec == Init /\ [][Next]_vars

-----------------------------------------------------------------------------
(* Claims about the orchestrator, checked under Spec *)

\* run r's startSession returns in this step
RunEnds(r) == runs[r].pc # "idle" /\ runs'[r].pc = "idle"

\* run r's startSession returns through its catch block in this step
RunFails(r) == RunEnds(r) /\ setupStep' = "form"

\* LiveAvatarSession reports the session's end in this step
SessionStops == setupStep = "session" /\ setupStep' # "session" /\ runs' = runs

\* C1: setupStep goes from "generating" to "session" only in the step of a run
\* that got an OK answer carrying contextId and businessName from
\* /api/generate-context and then an OK answer carrying session_token from
\* /api/start-session; a run that ends any other way leaves setupStep "form"
\* and error a non-empty string.
C1_SessionOnlyAfterBothAnswers ==
    [][/\ (setupStep = "generating" /\ setupStep' = "session") =>
            \E r \in Runs : /\ runs[r].pc = "awaitSession"
                             /\ RunEnds(r)
                             /\ runs[r].ctx.ok
                             /\ runs[r].ctx.contextId # Undefined
                             /\ runs[r].ctx.businessName # Undefined
                             /\ sessionToken' # Undefined
       /\ \A r \in Runs : (RunEnds(r) /\ setupStep' # "session") =>
                              (setupStep' = "form" /\ Truthy(error'))]_vars

\* C4: when a run fails, the tracked context identifiers and sessionToken hold
\* the values they had when that run started.
C4_FailureRetainsNothing ==
    [][\A r \in Runs : RunFails(r) => Tracked' = runs[r].before]_vars

\* C5: when the session stops, setupStep becomes "ended" only if the run that
\* opened this session had obtained a context identifier, and "form" otherwise;
\* the variant without an end screen always returns to "form".
C5_EndedOnlyWithContext ==
    [][SessionStops =>
         /\ setupStep' \in {"ended", "form"}
         /\ setupStep' = "ended" => Truthy(sessionCtx)
         /\ variant = "plain" => setupStep' = "form"]_vars

-----------------------------------------------------------------------------
(* Claims about the generate-context endpoint, checked under SpecHandler *)

Done(i) == req[i].pc = "done"

\* request i came with a body that parsed and lacks userName or businessUrl,
\* or has it empty
FieldMissing(i) ==
    /\ req[i].pc # "idle"
    /\ req[i].body.parsed
    /\ \/ req[i].body.userName \in {Undefined, ""}
       \/ ~req[i].body.hasUrl
       \/ req[i].body.businessUrl = <<>>

\* request i's crawl is over
PastCrawl(i) == req[i].pc \in {"lookup", "create", "done"} /\ ~FieldMissing(i)
                /\ req[i].body.parsed

HomepageFetches(i) ==
    {k \in DOMAIN req[i].crawl.fetches : req[i].crawl.fetches[k].path = "/"}

\* request j arrived after request i was answered
Sequential(i, j) == i \in req[j].after

\* both requests went through the crawl and derived the same business name
SameBusiness(i, j) ==
    /\ PastCrawl(i) /\ req[i].businessName # <<>>
    /\ PastCrawl(j) /\ req[j].businessName = req[i].businessName

\* the context has the name the handler gives the contexts of request i
NamedFor(ctx, i) ==
    \E t \in Timestamps :
        ctx.name = req[i].businessName
                   \o <<" Sales Rep", " - ", req[i].body.userName, " (", t, ")">>

\* the name begins with `${businessName} Sales Rep` of request i
ForBusinessOf(name, i) ==
    /\ Len(name) > Len(req[i].businessName)
    /\ SubSeq(name, 1, Len(req[i].businessName)) = req[i].businessName
    /\ name[Len(req[i].businessName) + 1] = " Sales Rep"

\* the first request created its context and the second one reused it
FirstCreatesSecondReuses(i, j) ==
    /\ \E k \in DOMAIN contexts : /\ contexts[k].id = req[i].made
                                  /\ NamedFor(contexts[k], i)
    /\ req[j].resp.status = 200
    /\ req[j].resp.reused
    /\ req[j].resp.contextId = req[i].made
    /\ "create" \notin Range(req[j].calls)

\* both requests were answered 200, the first one without reused
BothSucceeded(i, j) ==
    /\ ReuseEnabled(handler)
    /\ Sequential(i, j)
    /\ SameBusiness(i, j)
    /\ Done(j)
    /\ req[i].resp.status = 200 /\ ~req[i].resp.reused
    /\ req[j].resp.status = 200

\* the search of request i came to an entry without a name before any context
\* of its business
RaisedAt(i) ==
    \E k \in DOMAIN req[i].lookup.results :
        /\ req[i].lookup.results[k].name = NoName
        /\ \A m \in 1..(k - 1) : ~ForBusinessOf(req[i].lookup.results[m].name, i)

\* the page the second request's lookup got lists the context the first
\* request created, before any other context of that business
ListedFirst(i, j) ==
    /\ req[j].lookup.page
    /\ ~RaisedAt(j)
    /\ \E k \in DOMAIN req[j].lookup.results :
          /\ req[j].lookup.results[k].id = req[i].made
          /\ \A m \in 1..(k - 1) :
                ~ForBusinessOf(req[j].lookup.results[m].name, j)

\* C2 (as stated): of two sequential, successful requests to a reuse-enabled
\* handler for URLs that derive the same business name, the first creates a
\* context named "<businessName> Sales Rep - <userName> (<timestamp>)" and the
\* second answers reused: true with the contextId the first returned, without
\* creating a context.
C2_SecondRequestReuses ==
    \A i, j \in Reqs :
        (BothSucceeded(i, j) /\ req[i].resp.contextId # Undefined) =>
            (FirstCreatesSecondReuses(i, j)
               /\ req[j].resp.contextId = req[i].resp.contextId)

\* C2 (amended): the same when the list call of the second request answered
\* with a page on which the context the first request created comes before any
\* other context of the business; the id the second returns is that context's,
\* which is the contextId of the first answer whenever that answer has one.
C2_SecondRequestReusesWhenListed ==
    \A i, j \in Reqs :
        (BothSucceeded(i, j) /\ ListedFirst(i, j)) =>
            /\ FirstCreatesSecondReuses(i, j)
            /\ req[i].resp.contextId \in {Undefined, req[j].resp.contextId}

C2_Witness ==
    \E i, j \in Reqs :
        /\ BothSucceeded(i, j) /\ ListedFirst(i, j)
        /\ req[j].resp.reused
        /\ req[j].resp.contextId = req[i].resp.contextId
        /\ req[i].body.businessUrl # req[j].body.businessUrl

\* C3: in the reuse-enabled handlers every create call of a request comes after
\* the list call of findExistingContext of that request, and a request whose
\* lookup returned a context id composes no prompt, issues no POST /v1/contexts
\* and answers with that id.
C3_LookupBeforeCreate ==
    \A i \in Reqs :
        ReuseEnabled(handler) =>
            /\ \A k \in DOMAIN req[i].calls :
                  req[i].calls[k] = "create" =>
                      \E m \in 1..(k - 1) : req[i].calls[m] = "list"
            /\ (req[i].pc = "create" \/ req[i].prompt) =>
                  "list" \in Range(req[i].calls)
            /\ req[i].existing # Null =>
                  /\ ~req[i].prompt
                  /\ "create" \notin Range(req[i].calls)
                  /\ Done(i)
                  /\ req[i].resp.status = 200
                  /\ req[i].resp.contextId = req[i].existing

C3_Witness ==
    /\ ReuseEnabled(handler)
    /\ \E i \in Reqs : req[i].existing # Null /\ Done(i)
    /\ \E i \in Reqs : req[i].calls = <<"list", "create">> /\ Done(i)

\* C6: every answered request has either status 200 with a defined contextId
\* and businessName, and reused exactly when an existing context was reused, or
\* a non-2xx status with an error string and none of the success fields.
C6_ResponseShape ==
    \A i \in Reqs :
        Done(i) =>
            \/ /\ req[i].resp.status = 200
               /\ req[i].resp.contextId # Undefined
               /\ req[i].resp.businessName # <<>>
               /\ req[i].resp.error = <<>>
               /\ req[i].resp.reused <=> req[i].existing # Null
            \/ /\ req[i].resp.status \notin 200..299
               /\ req[i].resp.error # <<>>
               /\ req[i].resp.contextId = Undefined
               /\ req[i].resp.businessName = <<>>
               /\ ~req[i].resp.reused

Contains(s, sub) ==
    \E k \in 1..(Len(s) - Len(sub) + 1) : SubSeq(s, k, k + Len(sub) - 1) = sub

\* C8: in every variant, a request none of whose homepage fetches got the page
\* has a crawl that returned empty content and is answered 400 with an error
\* message containing businessUrl, without a call to the LiveAvatar API.
C8_UnfetchableHomepage ==
    \A i \in Reqs :
        (PastCrawl(i)
           /\ \A k \in HomepageFetches(i) : req[i].crawl.fetches[k].result.null) =>
            /\ ~req[i].crawl.threw
            /\ req[i].crawl.len = 0
            /\ Done(i)
            /\ req[i].resp.status = 400
            /\ Contains(req[i].resp.error, req[i].body.businessUrl)
            /\ req[i].calls = <<>>

\* C9: fetchWebsiteContent returns empty content only if every fetch it made
\* returned null, and returns non-empty content whenever a homepage fetch
\* (reader or direct) did not return null.
C9_EmptyOnlyWhenAllFailed ==
    \A i \in Reqs :
        (PastCrawl(i) /\ handler \in {"multi", "reader"} /\ ~req[i].crawl.threw) =>
            /\ req[i].crawl.len = 0 =>
                  \A k \in DOMAIN req[i].crawl.fetches :
                      req[i].crawl.fetches[k].result.null
            /\ (\E k \in HomepageFetches(i) : ~req[i].crawl.fetches[k].result.null)
                  => req[i].crawl.len > 0

\* C10: a request whose POST /v1/contexts got a non-success response is
\* answered with the remote status and with the remote message when the body
\* has one, else with "Failed to create context", whatever the body.
C10_RemoteErrorSurfaced ==
    \A i \in Reqs :
        (Done(i) /\ "create" \in Range(req[i].calls)
           /\ req[i].created.net /\ ~req[i].created.ok) =>
            /\ req[i].resp.status = req[i].created.status
            /\ req[i].resp.error =
                  IF req[i].created.json /\ req[i].created.message # <<>>
                  THEN req[i].created.message
                  ELSE <<"Failed to create context">>

-----------------------------------------------------------------------------
(* Claims about the orchestrator's inputs, checked under Spec *)

\* run r's startSession is invoked in this step
RunStarts(r) == runs[r].pc = "idle" /\ runs'[r].pc = "awaitContext"

\* the cuts [a, b] of u that leave out nothing but spaces at its two ends and
\* neither begin nor end with a space
TrimCuts(u) ==
    {c \in (1..(Len(u) + 1)) \X (0..Len(u)) :
        /\ c[1] <= c[2] + 1
        /\ \A k \in 1..(c[1] - 1) : u[k] = " "
        /\ \A k \in (c[2] + 1)..Len(u) : u[k] = " "
        /\ c[1] <= c[2] => (u[c[1]] # " " /\ u[c[2]] # " ")}

\* t begins with http:// or https://, in any case
BeginsWithScheme(t) ==
    t # <<>> /\ ToLowerCase(t[1]) \in {"http://", "https://"}

\* C11: the businessUrl a startSession run sends to /api/generate-context is
\* the trimmed value of the URL field, with "https://" put in front exactly
\* when the trimmed value does not begin with http:// or https:// in any case;
\* so it always carries a scheme.
C11_SentUrlIsNormalized ==
    [][\A r \in Runs :
         RunStarts(r) =>
            /\ BeginsWithScheme(runs'[r].normalizedUrl)
            /\ \E c \in TrimCuts(businessUrl) :
                  LET t == SubSeq(businessUrl, c[1], c[2])
                  IN  runs'[r].normalizedUrl =
                         IF BeginsWithScheme(t) THEN t ELSE <<"https://">> \o t]_vars

C11_Witness ==
    \E r \in Runs :
        /\ runs[r].pc = "awaitContext"
        /\ businessUrl = <<" ", "acme", ".", "com", " ">>
        /\ runs[r].normalizedUrl = <<"https://", "acme", ".", "com">>

\* C12: a startSession run is invoked, and setupStep becomes "generating",
\* only with userName and businessUrl both non-empty.
C12_GeneratingOnlyWithInputs ==
    [][((\E r \in Runs : RunStarts(r))
          \/ (setupStep # "generating" /\ setupStep' = "generating"))
            => (userName # "" /\ businessUrl # <<>>)]_vars

\* the "Create Another" button is pressed in this step
StartsOver == setupStep = "ended" /\ setupStep' = "form" /\ runs' = runs

\* C13: the start-over step leaves setupStep "form", currentContextId null,
\* currentBusinessName and currentBusinessUrl empty and hasEmbedRef false; and a
\* session stop goes to "ended" only on a context identifier that is set at
\* that moment (in the ref-based variant hasEmbedRef is never set without it).
C13_StartOverClears ==
    [][/\ StartsOver =>
              /\ currentContextId' = Null
              /\ currentBusinessName' = ""
              /\ currentBusinessUrl' = <<>>
              /\ hasEmbedRef' = FALSE
       /\ (SessionStops /\ setupStep' = "ended") => Truthy(currentContextId)
       /\ hasEmbedRef' => Truthy(currentContextId')]_vars

C13_Witness ==
    /\ variant = "ref"
    /\ setupStep = "form"
    /\ Truthy(sessionCtx)
    /\ currentContextId = Null
    /\ ~hasEmbedRef
    /\ currentBusinessUrl = <<>>

-----------------------------------------------------------------------------
(* Auto-start, checked under SpecFair *)

\* the request for the avatar list is answered or fails: fetchAvatars always
\* reaches its finally block
SpecFair ==
    Spec /\ WF_vars(\E ok \in BOOLEAN, list \in AvatarLists : FetchAvatars(ok, list))

AutoStartConfigured == AUTO_START /\ TruthySeq(AUTO_WEBSITE_URL)

\* C14: with auto-start configured the orchestrator eventually invokes
\* startSession from the auto-start effect, and the effect invokes it at most
\* once: once autoStartTriggered is set it stays set, and it is set only in a
\* step that starts a run.
C14_AutoStartsExactlyOnce ==
    /\ AutoStartConfigured => <>autoStartTriggered
    /\ [][/\ autoStartTriggered => autoStartTriggered'
          /\ (~autoStartTriggered /\ autoStartTriggered') =>
                 (AutoStartConfigured /\ \E r \in Runs : RunStarts(r))]_vars

-----------------------------------------------------------------------------
(* Claims about extractBusinessName, checked under SpecNames *)

Named(i) == req[i].pc = "named"

\* what the description of extractBusinessName gives for the URLs tried
ExpectedName(url) ==
    CASE url = <<"https://", "www", ".", "Example", "-", "Co", ".", "com">> ->
            <<"Example", " ", "Co">>
      [] url = <<"https://", "acme", ".", "com">> -> <<"Acme">>
      [] url = <<"https://", "www", ".", "acme", ".", "io">> -> <<"Acme">>
      [] url = <<"http://", "acme", "-", "corp", ".", "app", "/", "pricing">> ->
            <<"Acme", " ", "Corp">>
      [] url = <<"https://", "www", ".", "com">> -> <<"Com">>
      [] OTHER -> <<"the company">>

-----------------------------------------------------------------------------
(* Claims about generateSalesPrompt, checked under SpecPrompts *)

Prompted(i) == req[i].pc = "prompted"

\* the ceilings the three variants are described with
DescribedCeiling ==
    CASE handler = "simple" -> 2000
      [] handler = "multi" -> 6000
      [] OTHER -> 10000

\* C16: the content a prompt embeds starts where the crawled content starts,
\* is never longer than the variant's ceiling (2000, 6000, 10000) nor than
\* the content, and is the whole content when the content is not longer than
\* the ceiling.
C16_EmbeddedContentIsBoundedPrefix ==
    \A i \in Reqs :
        Prompted(i) =>
            LET seg == req[i].systemPrompt.truncatedContent
                len == req[i].crawl.len
            IN  /\ seg.from = 0
                /\ seg.to <= len
                /\ seg.to - seg.from <= DescribedCeiling
                /\ len <= DescribedCeiling => seg.to = len

C16_Witness ==
    \E i, j \in Reqs :
        /\ Prompted(i) /\ Prompted(j)
        /\ handler = "multi"
        /\ req[i].crawl.len = 6001
        /\ req[i].systemPrompt.truncatedContent = [from |-> 0, to |-> 6000]
        /\ req[j].crawl.len = 1999
        /\ req[j].systemPrompt.truncatedContent = [from |-> 0, to |-> 1999]

\* C17: every prompt names the business it speaks for, tells the model to
\* answer only from the website content supplied, to offer a human when it
\* does not know, and to keep answers brief for voice.
C17_PromptInstructions ==
    \A i \in Reqs :
        Prompted(i) =>
            /\ req[i].systemPrompt.salesRepFor = req[i].businessName
            /\ req[i].systemPrompt.onlyProvidedContent
            /\ req[i].systemPrompt.connectToHuman
            /\ req[i].systemPrompt.briefForVoice

\* the runs of startSession that are waiting for an answer
InFlight == {r \in Runs : runs[r].pc # "idle"}

\* C19: at most one run of startSession is in flight at any time, and no run
\* starts while setupStep is "generating" or "session".
C19_OneRunAtATime ==
    [][/\ Cardinality(InFlight) <= 1
       /\ \A r \in Runs :
             RunStarts(r) => setupStep \notin {"generating", "session"}]_vars

-----------------------------------------------------------------------------
(* Claims about overlapping requests and the lookup, checked under SpecHandler *)

\* neither request was answered before the other arrived
Overlapping(i, j) == i # j /\ ~Sequential(i, j) /\ ~Sequential(j, i)

\* request i's lookup got a page without a context of its business
Missed(i) ==
    /\ "list" \in Range(req[i].calls)
    /\ req[i].lookup.page
    /\ \A k \in DOMAIN req[i].lookup.results :
          ~ForBusinessOf(req[i].lookup.results[k].name, i)

\* the remote service made a context for request i
Made(i) == Done(i) /\ req[i].made # Null

\* C18: nothing keeps two requests for one business apart: when both got a
\* page without a context of the business and both created, the service holds
\* two different contexts whose names begin with the business's prefix.
C18_BothMissBothCreate ==
    \A i, j \in Reqs :
        (/\ ReuseEnabled(handler) /\ i # j /\ SameBusiness(i, j)
         /\ Missed(i) /\ Missed(j) /\ Made(i) /\ Made(j))
        => /\ req[i].made # req[j].made
           /\ \E k, m \in DOMAIN contexts :
                 /\ k # m
                 /\ contexts[k].id = req[i].made
                 /\ contexts[m].id = req[j].made
                 /\ ForBusinessOf(contexts[k].name, i)
                 /\ ForBusinessOf(contexts[m].name, i)

C18_Witness ==
    \E i, j \in Reqs :
        /\ ReuseEnabled(handler) /\ Overlapping(i, j) /\ SameBusiness(i, j)
        /\ Missed(i) /\ Missed(j) /\ Made(i) /\ Made(j)
        /\ foreignContexts = 0
        /\ Len(contexts) = 2
        /\ \A k \in DOMAIN contexts : ForBusinessOf(contexts[k].name, i)

\* the positions of the page request i got that hold a context of its business
Matches(i) ==
    {k \in DOMAIN req[i].lookup.results :
        ForBusinessOf(req[i].lookup.results[k].name, i)}

LookupFailed(i) ==
    /\ "list" \in Range(req[i].calls)
    /\ ~req[i].lookup.page \/ RaisedAt(i)

\* C21: a lookup that fails (no answer, a non-OK answer, a body that does not
\* parse, a listed entry without a name) returns null and the handler goes on
\* to POST /v1/contexts: the request is never answered from the lookup.
C21_FailedLookupCreates ==
    \A i \in Reqs :
        LookupFailed(i) =>
            /\ req[i].existing = Null
            /\ req[i].prompt
            /\ req[i].pc \in {"create", "done"}
            /\ Done(i) => /\ req[i].calls = <<"list", "create">>
                          /\ req[i].resp = CreateResponse(req[i].created,
                                                          req[i].businessName)

C21_Witness ==
    \E i \in Reqs :
        /\ Done(i) /\ RaisedAt(i)
        /\ \E k \in DOMAIN req[i].lookup.results :
              ForBusinessOf(req[i].lookup.results[k].name, i)
        /\ req[i].calls = <<"list", "create">>
        /\ req[i].resp.status = 200 /\ ~req[i].resp.reused

-----------------------------------------------------------------------------
(* Claims about retries and the error message, checked under Spec *)

\* run r sends a request in this step
IssuesCall(r) ==
    /\ runs'[r].pc \in {"awaitContext", "awaitSession"}
    /\ runs'[r].pc # runs[r].pc

\* C22: a run calls /api/generate-context once, when it starts, and
\* /api/start-session once, on the answer of the first call; while the message
\* of a failure is pending, the only step that sends a request is the user's
\* submission of the form.
C22_NoAutomaticRetry ==
    [][\A r \in Runs :
          IssuesCall(r) =>
              /\ runs'[r].pc = "awaitContext" => runs[r].pc = "idle"
              /\ runs'[r].pc = "awaitSession" => runs[r].pc = "awaitContext"
              /\ Truthy(error) =>
                    /\ runs'[r].pc = "awaitContext"
                    /\ setupStep = "form"
                    /\ autoStartTriggered' = autoStartTriggered]_vars

\* C30: error is non-null only while setupStep is "form", and a step into
\* "generating" leaves error null.
C30_ErrorOnlyOnForm ==
    [][/\ Truthy(error) => setupStep = "form"
       /\ Truthy(error') => setupStep' = "form"
       /\ (setupStep # "generating" /\ setupStep' = "generating") => error' = Null]_vars

-----------------------------------------------------------------------------
(* Claims about the reader-based handler, checked under SpecHandler *)

\* request i's crawl returned content
GotContent(i) ==
    /\ PastCrawl(i)
    /\ ~req[i].crawl.threw /\ ~req[i].crawl.failed

\* C29: the reader-based handler makes no list call and never answers with
\* reused; a request whose crawl returned content goes to POST /v1/contexts
\* and has made exactly that one call when it is answered.
C29_ReaderAlwaysCreates ==
    handler = "reader" =>
        \A i \in Reqs :
            /\ "list" \notin Range(req[i].calls)
            /\ req[i].existing = Null
            /\ ~req[i].resp.reused
            /\ GotContent(i) => /\ req[i].pc \in {"create", "done"}
                                /\ req[i].prompt
                                /\ Done(i) => req[i].calls = <<"create">>
            /\ (req[i].pc # "idle" /\ ~GotContent(i)) => req[i].calls = <<>>

C29_Witness ==
    \E i, j \in Reqs :
        /\ handler = "reader"
        /\ Sequential(i, j) /\ SameBusiness(i, j)
        /\ Done(j)
        /\ req[i].resp.status = 200 /\ req[j].resp.status = 200
        /\ req[i].made # Null /\ req[j].made # Null /\ req[i].made # req[j].made
        /\ req[j].calls = <<"create">>

-----------------------------------------------------------------------------
(* Claims about the page fetchers and the crawlers, checked under SpecCrawl *)

Calls == Steps.calls

\* the calls for secondary pages
SecondaryCalls == {k \in DOMAIN Calls : Calls[k].path # "/"}

HomepageCalls == {k \in DOMAIN Calls : Calls[k].path = "/"}

PathsOf(calls) == [k \in DOMAIN calls |-> calls[k].path]

\* C23: no exception leaves a page fetcher: a call that ended returned, null
\* when the fetch was rejected, the status was not 2xx, the timer aborted it
\* or the body could not be read, and the body (its text for
\* fetchPageDirect) only after a 2xx answer whose body was read.
C23_FetchersReturnNullOnFailure ==
    \A k \in DOMAIN Calls :
        LET call == Calls[k]
        IN  /\ call.st # "threw"
            /\ call.st = "returned" =>
                  /\ call.cause \in Causes
                  /\ call.cause \in {"network", "status", "abort", "bodyError"}
                        => call.result = NullStr
                  /\ ~call.result.null =>
                        /\ call.cause = "body" /\ call.reply.ok
                        /\ call.result.len =
                              IF call.fetcher = "fetchPageDirect"
                              THEN call.reply.text ELSE call.reply.body

C23_Witness ==
    /\ handler = "multi"
    /\ Steps.pc = "done"
    /\ Calls[1].cause = "body" /\ ~Calls[1].result.null
    /\ Calls[2].cause = "network" /\ Calls[2].result = NullStr
    /\ Calls[3].cause = "status" /\ Calls[3].result = NullStr
    /\ Calls[4].cause = "abort" /\ Calls[4].result = NullStr

CallMade(k) == k \in DOMAIN Calls

CallReturned(k) == k \in DOMAIN Calls /\ Calls[k].st = "returned"

\* C24: with timers that fire, every call of a page fetcher that was made
\* returns eventually, whatever the server does.
C24_EveryCallReturns ==
    \A k \in CallIds : CallMade(k) ~> CallReturned(k)

\* C25: a call for a secondary page is made only after every homepage call
\* (the fallback included) has ended and the homepage content is there; a
\* crawl whose homepage fetch failed has made no call for a secondary page.
C25_HomepageBeforeSecondary ==
    /\ SecondaryCalls # {} =>
          /\ \A m \in HomepageCalls : Calls[m].st = "returned"
          /\ \A m \in HomepageCalls, k \in SecondaryCalls : m < k
          /\ TruthyStr(Steps.main)
          /\ \E m \in HomepageCalls : Calls[m].result = Steps.main
    /\ Steps.pc \in {"home", "fallback", "failed"} => SecondaryCalls = {}

C25_Witness ==
    /\ handler = "reader"
    /\ Len(Calls) = 3
    /\ Calls[1].cause = "abort"
    /\ Calls[2].fetcher = "fetchPageDirect" /\ Calls[2].cause = "body"
    /\ Calls[3].path = "/iphone" /\ Calls[3].st = "waiting"

\* the reader-based crawler made its direct fetch of the homepage
DirectAttempted == \E k \in DOMAIN Calls : Calls[k].fetcher = "fetchPageDirect"

\* C26: in the reader-based crawler, once the reader's call for the homepage
\* has returned, the direct fetch has been attempted exactly when the reader
\* returned nothing or fewer than 200 characters; with 200 characters or
\* more the content starts with what the reader returned.
C26_FallbackIffInsufficient ==
    (handler = "reader" /\ Steps.pc # "idle") =>
        LET jina == Calls[1]
        IN  /\ jina.fetcher = "fetchWithJina"
            /\ jina.st # "returned" => ~DirectAttempted
            /\ jina.st = "returned" =>
                  /\ DirectAttempted <=> (jina.result.null \/ jina.result.len < 200)
                  /\ (~jina.result.null /\ jina.result.len >= 200) =>
                        /\ Steps.main = jina.result
                        /\ Steps.pc \in {"pages", "done"} =>
                              Steps.parts[1] = Part("/", jina.result.len)

C26_Witness ==
    /\ handler = "reader"
    /\ Steps.pc = "done"
    /\ Calls[1].result = Str(200)
    /\ ~DirectAttempted
    /\ Steps.parts[1] = Part("/", 200)

\* the secondary calls of the multi-page crawler whose page is in the content
AcceptedCalls ==
    SelectSeq(<<2, 3, 4>>,
              LAMBDA k : Calls[k].cause = "body" /\ Calls[k].reply.text > 100)

C28_OneSecondaryPage ==
    (handler = "reader" /\ Steps.pc \in {"pages", "done"}) =>
        LET first == CHOOSE k \in SecondaryCalls : \A m \in SecondaryCalls : k <= m
            n == Cardinality(SecondaryCalls)
            Long(k) == ~Calls[k].result.null /\ Calls[k].result.len > 500
        IN  /\ n >= 1
            /\ SecondaryCalls = first..Len(Calls)
            /\ \A k \in SecondaryCalls :
                  /\ Calls[k].fetcher = "fetchWithJina"
                  /\ Calls[k].path =
                        <<"/iphone", "/products", "/about", "/features">>[k - first + 1]
                  /\ k < Len(Calls) => (Calls[k].st = "returned" /\ ~Long(k))
            /\ Len(Steps.parts) <= 2
            /\ Steps.pc = "pages" => (Calls[Len(Calls)].st # "returned"
                                      /\ Len(Steps.parts) = 1)
            /\ Steps.pc = "done" =>
                  /\ Calls[Len(Calls)].st = "returned"
                  /\ IF Long(Len(Calls))
                     THEN Steps.parts[2] = Part(Calls[Len(Calls)].path,
                                                Calls[Len(Calls)].result.len)
                     ELSE Len(Steps.parts) = 1 /\ n = 4

C28_Witness ==
    /\ handler = "reader"
    /\ Steps.pc = "done"
    /\ Cardinality(SecondaryCalls) = 2
    /\ \E k \in SecondaryCalls : Calls[k].path = "/iphone" /\ Calls[k].result = Str(500)
    /\ PathsOf(Steps.parts) = <<"/", "/products">>
    /\ Steps.parts[2].len = 501

=============================================================================
